---- MODULE Spec2Model ----
(***************************************************************************)
(* Model of src/app.py: the schedule-cell pipeline (preprocess, the two    *)
(* splits, the day+time grammar, the days summary) and the upload          *)
(* handler's file lifecycle.                                               *)
(*                                                                         *)
(* Texts are TLA+ strings in the state; the regular expressions act on     *)
(* them character by character through a small backtracking matcher that  *)
(* follows Python's re: leftmost match, greedy repetitions that give back  *)
(* one repetition at a time, non-overlapping left-to-right substitution.   *)
(***************************************************************************)
EXTENDS Integers, Sequences, FiniteSets, TLC

(***************************************************************************)
(* Characters and strings                                                  *)
(***************************************************************************)
Digit == {"0", "1", "2", "3", "4", "5", "6", "7", "8", "9"}
Upper == {"A", "B", "C", "D", "E", "F", "G", "H", "I", "J", "K", "L", "M",
          "N", "O", "P", "Q", "R", "S", "T", "U", "V", "W", "X", "Y", "Z"}
Lower == {"a", "b", "c", "d", "e", "f", "g", "h", "i", "j", "k", "l", "m",
          "n", "o", "p", "q", "r", "s", "t", "u", "v", "w", "x", "y", "z"}
Whitespace == {" ", "\t"}
Punct == {":", "-", ".", ","}
\* '.' of a regular expression: any character but a newline
AnyChar == Digit \cup Upper \cup Lower \cup Whitespace \cup Punct
Letter == Upper \cup Lower
Meridiem1 == {"A", "P", "a", "p"}
Meridiem2 == {"M", "m"}

\* a string as the sequence of its characters, and back
Chars(str) == [i \in 1..Len(str) |-> SubSeq(str, i, i)]

RECURSIVE StrFrom(_, _)
StrFrom(cs, k) == IF k > Len(cs) THEN "" ELSE cs[k] \o StrFrom(cs, k + 1)
Str(cs) == StrFrom(cs, 1)

\* str.upper() on one character and on a sequence of characters
UpperOf(c) ==
    IF c \in Lower
    THEN LET lo == Chars("abcdefghijklmnopqrstuvwxyz")
             up == Chars("ABCDEFGHIJKLMNOPQRSTUVWXYZ")
         IN  up[CHOOSE i \in 1..26 : lo[i] = c]
    ELSE c
UpperSeq(cs) == [i \in 1..Len(cs) |-> UpperOf(cs[i])]

\* str.strip(chars): what lies between the first and the last character
\* that is not in the set
StripSet(cs, set) ==
    LET keep == {k \in 1..Len(cs) : cs[k] \notin set}
    IN  IF keep = {} THEN <<>>
        ELSE SubSeq(cs, CHOOSE k \in keep : \A j \in keep : k <= j,
                        CHOOSE k \in keep : \A j \in keep : j <= k)
\* str.strip()
Strip(cs) == StripSet(cs, Whitespace)

(***************************************************************************)
(* The matcher.  A pattern is a sequence of items; an item is an atom (a   *)
(* sequence of character sets, matched one character each) repeated       *)
(* between min and max times (max = -1: unbounded), greedily, optionally   *)
(* guarded by a negative lookbehind nb (the empty set: none).  A match is  *)
(* the sequence of the positions where the items start, followed by the    *)
(* position after the match; <<>> is no match.                             *)
(***************************************************************************)
One(set) == [atom |-> <<set>>, min |-> 1, max |-> 1, nb |-> {}]
Opt(set) == [atom |-> <<set>>, min |-> 0, max |-> 1, nb |-> {}]
Star(set) == [atom |-> <<set>>, min |-> 0, max |-> -1, nb |-> {}]
Plus(set) == [atom |-> <<set>>, min |-> 1, max |-> -1, nb |-> {}]
Rep(set, lo, hi) == [atom |-> <<set>>, min |-> lo, max |-> hi, nb |-> {}]
Lit(str) == [atom |-> [i \in 1..Len(str) |-> {SubSeq(str, i, i)}],
             min |-> 1, max |-> 1, nb |-> {}]

AtomAt(atom, s, i) ==
    /\ i + Len(atom) - 1 <= Len(s)
    /\ \A j \in 1..Len(atom) : s[i + j - 1] \in atom[j]

RECURSIVE CountReps(_, _, _, _)
CountReps(it, s, i, c) ==
    IF (it.max >= 0 /\ c >= it.max) \/ ~AtomAt(it.atom, s, i + c * Len(it.atom))
    THEN c
    ELSE CountReps(it, s, i, c + 1)

RECURSIVE MatchItems(_, _, _, _), TryCount(_, _, _, _, _)
MatchItems(items, k, s, i) ==
    IF k > Len(items) THEN <<i>>
    ELSE IF items[k].nb # {} /\ i > 1 /\ s[i - 1] \in items[k].nb THEN <<>>
    ELSE TryCount(items, k, s, i, CountReps(items[k], s, i, 0))
TryCount(items, k, s, i, c) ==
    IF c < items[k].min THEN <<>>
    ELSE LET rest == MatchItems(items, k + 1, s, i + c * Len(items[k].atom))
         IN  IF rest # <<>> THEN <<i>> \o rest
             ELSE TryCount(items, k, s, i, c - 1)

\* re.match: the match that starts at the first character
ReMatch(pat, s) == MatchItems(pat.items, 1, s, 1)

\* re.search from position from: the leftmost match
RECURSIVE SearchFrom(_, _, _)
SearchFrom(pat, s, from) ==
    IF from > Len(s) + 1 THEN <<>>
    ELSE LET m == MatchItems(pat.items, 1, s, from)
         IN  IF m # <<>> THEN m ELSE SearchFrom(pat, s, from + 1)
ReSearch(pat, s) == SearchFrom(pat, s, 1)

MatchStart(m) == m[1]
MatchEnd(m) == m[Len(m)]
\* match.group(g); groups[g] is the pair of the group's first and last item
Group(pat, m, s, g) ==
    SubSeq(s, m[pat.groups[g][1]], m[pat.groups[g][2] + 1] - 1)

\* a replacement template is a sequence of group numbers and literal texts
Expand(pat, m, s, repl) ==
    LET piece(r) == IF r.g > 0 THEN Group(pat, m, s, r.g) ELSE Chars(r.lit)
        RECURSIVE cat(_)
        cat(n) == IF n = 0 THEN <<>> ELSE cat(n - 1) \o piece(repl[n])
    IN  cat(Len(repl))
G(n) == [g |-> n, lit |-> ""]
L(str) == [g |-> 0, lit |-> str]

\* re.sub: every non-overlapping match, left to right, replaced
RECURSIVE SubFrom(_, _, _, _)
SubFrom(pat, repl, s, from) ==
    LET m == SearchFrom(pat, s, from)
    IN  IF m = <<>> THEN SubSeq(s, from, Len(s))
        ELSE SubSeq(s, from, MatchStart(m) - 1) \o Expand(pat, m, s, repl)
               \o SubFrom(pat, repl, s, MatchEnd(m))
ReSub(pat, repl, s) == SubFrom(pat, repl, s, 1)

\* re.findall: the matches, left to right, non-overlapping
RECURSIVE FindAllFrom(_, _, _)
FindAllFrom(pat, s, from) ==
    LET m == SearchFrom(pat, s, from)
    IN  IF m = <<>> THEN <<>> ELSE <<m>> \o FindAllFrom(pat, s, MatchEnd(m))
ReFindAll(pat, s) == FindAllFrom(pat, s, 1)

(***************************************************************************)
(* preprocess_schedule_text                                                *)
(***************************************************************************)
\* \s+
PatSpaces == [items |-> <<Plus(Whitespace)>>, groups |-> <<>>]
\* ([APap][Mm])(\d)
PatMeridiemDigit ==
    [items |-> <<One(Meridiem1), One(Meridiem2), One(Digit)>>,
     groups |-> <<<<1, 2>>, <<3, 3>>>>]
\* (\d)([APap][Mm])
PatDigitMeridiem ==
    [items |-> <<One(Digit), One(Meridiem1), One(Meridiem2)>>,
     groups |-> <<<<1, 1>>, <<2, 3>>>>]
\* \d{1,2}:\d{2}\s*[APap][Mm]
TimeWithMeridiem ==
    <<Rep(Digit, 1, 2), One({":"}), Rep(Digit, 2, 2), Star(Whitespace),
      One(Meridiem1), One(Meridiem2)>>
\* (\d{1,2}:\d{2}\s*[APap][Mm])\s*(\d{1,2}:\d{2}\s*[APap][Mm])
PatAdjacentTimes ==
    [items |-> TimeWithMeridiem \o <<Star(Whitespace)>> \o TimeWithMeridiem,
     groups |-> <<<<1, 6>>, <<8, 13>>>>]
\* (\d)-(\d)
PatBareDash ==
    [items |-> <<One(Digit), One({"-"}), One(Digit)>>,
     groups |-> <<<<1, 1>>, <<3, 3>>>>]
\* \d{1,2}:\d{2}\s*[APap][Mm]\s* - \s*\d{1,2}:\d{2}\s*[APap][Mm]
TimeRange ==
    TimeWithMeridiem \o <<Star(Whitespace), Lit(" - "), Star(Whitespace)>>
        \o TimeWithMeridiem
\* ([A-Z]+)\s*(<time range>)
PatDayTimes ==
    [items |-> <<Plus(Upper), Star(Whitespace)>> \o TimeRange,
     groups |-> <<<<1, 1>>, <<3, 17>>>>]
\* (?<!\s)([APap][Mm])
PatUnspacedMeridiem ==
    [items |-> <<[atom |-> <<Meridiem1>>, min |-> 1, max |-> 1, nb |-> Whitespace],
                 One(Meridiem2)>>,
     groups |-> <<<<1, 2>>>>]

preprocess_chars(text) ==
    LET t1 == ReSub(PatSpaces, <<L(" ")>>, Strip(text))
        t2 == ReSub(PatMeridiemDigit, <<G(1), L(" "), G(2)>>, t1)
        t3 == ReSub(PatDigitMeridiem, <<G(1), L(" "), G(2)>>, t2)
        t4 == ReSub(PatAdjacentTimes, <<G(1), L("-"), G(2)>>, t3)
        t5 == ReSub(PatBareDash, <<G(1), L(" - "), G(2)>>, t4)
        m  == ReMatch(PatDayTimes, t5)
    IN  IF m # <<>>
        THEN LET days  == Group(PatDayTimes, m, t5, 1)
                 times == ReSub(PatUnspacedMeridiem, <<L(" "), G(1)>>,
                                Group(PatDayTimes, m, t5, 2))
             IN  days \o <<" ">> \o Strip(times)
        ELSE t5
preprocess_schedule_text(schedule_text) == Str(preprocess_chars(Chars(schedule_text)))

(***************************************************************************)
(* split_same_time_diff_day                                                *)
(***************************************************************************)
\* (?i)([A-Z]+)\s+(<time range>); under (?i) [A-Z] matches both cases
PatSameTime ==
    [items |-> <<Plus(Letter), Plus(Whitespace)>> \o TimeRange,
     groups |-> <<<<1, 1>>, <<3, 17>>>>]

\* the text the function matches against: whitespace collapsed, ends trimmed
same_time_text(schedule_text) == ReSub(PatSpaces, <<L(" ")>>, Strip(schedule_text))

\* day_mapping.get(c, c) on an upper-case letter
day_mapping(c) ==
    CASE c = "M" -> "M"
      [] c = "T" -> "T"
      [] c = "W" -> "W"
      [] c = "R" -> "Th"
      [] c = "F" -> "F"
      [] c = "S" -> "S"
      [] c = "U" -> "SU"
      [] OTHER -> c

\* a variant of the test that leaves out the look at the next letter
IsDigraph_AnyNext(d, n) ==
    /\ d[n + 1] = "T"
    /\ n + 1 < Len(d)

\* the test of the loop: days[i] == "T" and i + 1 < len(days) and
\* days[i + 1] in "Hh"   (i counts from 0 as in the source)
IsDigraph(d, n) ==
    /\ d[n + 1] = "T"
    /\ n + 1 < Len(d)
    /\ d[n + 2] \in {"H", "h"}

\* one turn of the while loop: the day appended and the new index
ScanDay(d, n) == IF IsDigraph(d, n) THEN day_mapping("R") ELSE day_mapping(UpperOf(d[n + 1]))

\* a variant that advances one position also after a digraph
ScanNext_One(d, n) == n + 1

ScanNext(d, n) == IF IsDigraph(d, n) THEN n + 2 ELSE n + 1

(***************************************************************************)
(* split_two_schedules                                                     *)
(***************************************************************************)
\* (.*M)\s+([A-Z].*)
PatTwoSchedules ==
    [items |-> <<Star(AnyChar), One({"M"}), Plus(Whitespace), One(Upper), Star(AnyChar)>>,
     groups |-> <<<<1, 2>>, <<4, 5>>>>]

\* a variant with a lazy first group, (.*?M): the cut at the first boundary
split_two_chars_Lazy(s) ==
    LET cuts == {c \in 1..Len(s) : /\ s[c] = "M"
                                   /\ \E q \in (c + 2)..Len(s) :
                                          /\ s[q] \in Upper
                                          /\ \A j \in (c + 1)..(q - 1) : s[j] \in Whitespace}
    IN  IF cuts = {} THEN <<s>>
        ELSE LET c == CHOOSE x \in cuts : \A y \in cuts : x <= y
                 q == CHOOSE x \in (c + 2)..Len(s) :
                          /\ s[x] \in Upper
                          /\ \A j \in (c + 1)..(x - 1) : s[j] \in Whitespace
             IN  <<SubSeq(s, 1, c), SubSeq(s, q, Len(s))>>

split_two_chars(s) ==
    LET m == ReSearch(PatTwoSchedules, s)
    IN  IF m # <<>>
        THEN <<Group(PatTwoSchedules, m, s, 1), Group(PatTwoSchedules, m, s, 2)>>
        ELSE <<s>>
split_two_schedules(schedule) ==
    LET ps == split_two_chars(Chars(schedule))
    IN  [k \in 1..Len(ps) |-> Str(ps[k])]

(***************************************************************************)
(* parse_schedule: the day+time grammar                                    *)
(***************************************************************************)
\* (AM|PM) under (?i): either letter of each alternative in either case
CaseFold(set) == set \cup {UpperOf(c) : c \in Lower \cap set}
                     \cup {c \in Lower : UpperOf(c) \in set}
AmOrPm == [atom |-> <<CaseFold({"A", "P"}), CaseFold({"M"})>>,
           min |-> 0, max |-> 1, nb |-> {}]
\* (?i)([A-Z]+)\s+(\d{1,2}:\d{2})\s?(AM|PM)?\s* - \s*(\d{1,2}:\d{2})\s?(AM|PM)?
PatEntry ==
    [items |-> <<Plus(Letter), Plus(Whitespace),
                 Rep(Digit, 1, 2), One({":"}), Rep(Digit, 2, 2),
                 Opt(Whitespace), AmOrPm,
                 Star(Whitespace), Lit(" - "), Star(Whitespace),
                 Rep(Digit, 1, 2), One({":"}), Rep(Digit, 2, 2),
                 Opt(Whitespace), AmOrPm>>,
     groups |-> <<<<1, 1>>, <<3, 5>>, <<7, 7>>, <<11, 13>>, <<15, 15>>>>]

\* a variant that fills a missing marker from the other side of the range
EntryOf_Inherit(m, s) ==
    LET sp == Str(Group(PatEntry, m, s, 3))
        ep == Str(Group(PatEntry, m, s, 5))
    IN  [day                |-> Str(Group(PatEntry, m, s, 1)),
         time_start         |-> Str(Group(PatEntry, m, s, 2)),
         time_start_daytime |-> IF sp = "" THEN ep ELSE sp,
         time_end           |-> Str(Group(PatEntry, m, s, 4)),
         time_end_daytime   |-> IF ep = "" THEN sp ELSE ep]

\* the dictionary appended for one match
EntryOf(m, s) ==
    [day                |-> Str(Group(PatEntry, m, s, 1)),
     time_start         |-> Str(Group(PatEntry, m, s, 2)),
     time_start_daytime |-> Str(Group(PatEntry, m, s, 3)),
     time_end           |-> Str(Group(PatEntry, m, s, 4)),
     time_end_daytime   |-> Str(Group(PatEntry, m, s, 5))]

\* re.findall(pattern, part.strip()) turned into entries; a blank part is skipped
EntriesOfPart(part) ==
    LET s  == Strip(Chars(part))
        ms == IF s = <<>> THEN <<>> ELSE ReFindAll(PatEntry, s)
    IN  [k \in 1..Len(ms) |-> EntryOf(ms[k], s)]

RECURSIVE EntriesOfParts(_)
EntriesOfParts(parts) ==
    IF parts = <<>> THEN <<>>
    ELSE EntriesOfPart(Head(parts)) \o EntriesOfParts(Tail(parts))

(***************************************************************************)
(* extract_and_transform_table: the days summary                           *)
(***************************************************************************)
\* the characters in code-point order, for sorted()
CodePointOrder ==
    Chars("\t ,-.0123456789:ABCDEFGHIJKLMNOPQRSTUVWXYZabcdefghijklmnopqrstuvwxyz")
Ord(c) == CHOOSE k \in 1..Len(CodePointOrder) : CodePointOrder[k] = c

\* a < b for sequences of characters, as Python compares strings
RECURSIVE CharsLess(_, _)
CharsLess(a, b) ==
    IF b = <<>> THEN FALSE
    ELSE IF a = <<>> THEN TRUE
    ELSE IF Head(a) # Head(b) THEN Ord(Head(a)) < Ord(Head(b))
    ELSE CharsLess(Tail(a), Tail(b))
StrLess(a, b) == CharsLess(Chars(a), Chars(b))

\* sorted(set)
RECURSIVE Sorted(_)
Sorted(set) ==
    IF set = {} THEN <<>>
    ELSE LET least == CHOOSE x \in set : \A y \in set \ {x} : StrLess(x, y)
         IN  <<least>> \o Sorted(set \ {least})

\* " ".join(seq)
RECURSIVE JoinSpace(_)
JoinSpace(seq) ==
    IF seq = <<>> THEN ""
    ELSE IF Len(seq) = 1 THEN seq[1]
    ELSE seq[1] \o " " \o JoinSpace(Tail(seq))

\* a variant that puts a placeholder where no day was found
DaysOf_Placeholder(schedule) ==
    IF schedule = <<>> THEN "TBA"
    ELSE JoinSpace(Sorted({schedule[k].day : k \in 1..Len(schedule)}))

\* " ".join(sorted(set(item['day'] for item in schedule)))
DaysOf(schedule) == JoinSpace(Sorted({schedule[k].day : k \in 1..Len(schedule)}))

(***************************************************************************)
(* The state.  One table row is processed at a time: its two schedule      *)
(* columns split into lines (schedule_parts_1, schedule_parts_2), the      *)
(* joined text (full_schedule), the locals of parse_schedule and of        *)
(* split_same_time_diff_day, and the row's results (days_times, days).     *)
(* The upload handler's state is one record field per request.             *)
(***************************************************************************)
VARIABLES pc, schedule_parts_1, schedule_parts_2, full_schedule,
          schedule_parts, day_codes, times, i, individual_days,
          days_times, days,
          rpc, request, file_path, files, outcome, status, wrote

rowVars == <<pc, schedule_parts_1, schedule_parts_2, full_schedule,
             schedule_parts, day_codes, times, i, individual_days,
             days_times, days>>
uploadVars == <<rpc, request, file_path, files, outcome, status, wrote>>
vars == <<rowVars, uploadVars>>

(***************************************************************************)
(* Bounds and the inputs drawn in Init                                     *)
(***************************************************************************)
MaxDayLen == 3
MaxLines == 3
NumRequests == 2

\* letters a day-code token of a one-line cell is made of
DayLetters == {"T", "H", "M", "t", "h"}
RECURSIVE TokensOfLen(_)
TokensOfLen(n) ==
    IF n = 0 THEN {""}
    ELSE {t \o c : t \in TokensOfLen(n - 1), c \in DayLetters}
DayTokens == UNION {TokensOfLen(n) : n \in 1..MaxDayLen}

\* ways a time range is written in a cell, with the fields as written
RangeForms ==
    {[text |-> "8:00 AM - 9:00 AM", dash |-> "spaced",
      start |-> "8:00", sm |-> "AM", end |-> "9:00", em |-> "AM"],
     [text |-> "8:30AM  -  9:30pm", dash |-> "spaced",
      start |-> "8:30", sm |-> "AM", end |-> "9:30", em |-> "pm"],
     [text |-> "7:30-10:00 AM", dash |-> "bare",
      start |-> "7:30", sm |-> "", end |-> "10:00", em |-> "AM"],
     [text |-> "1:00 PM - 2:00", dash |-> "spaced",
      start |-> "1:00", sm |-> "PM", end |-> "2:00", em |-> ""],
     [text |-> "9:15 - 11:45", dash |-> "spaced",
      start |-> "9:15", sm |-> "", end |-> "11:45", em |-> ""],
     [text |-> "9:30 AM 12:00 PM", dash |-> "elided",
      start |-> "9:30", sm |-> "AM", end |-> "12:00", em |-> "PM"],
     [text |-> "9:30 AM-12:00 PM", dash |-> "unspaced",
      start |-> "9:30", sm |-> "AM", end |-> "12:00", em |-> "PM"],
     [text |-> "2:00 PM - 3:00 PM", dash |-> "spaced",
      start |-> "2:00", sm |-> "PM", end |-> "3:00", em |-> "PM"]}
\* the ranges written in the one-line cells
RangeTexts == {r.text : r \in RangeForms} \ {"2:00 PM - 3:00 PM"}

\* the vocabulary of the cells of several lines
LineDays == {"M", "TTH", "Th"}
LineRanges == {"8:00 AM - 9:00 AM", "7:30-10:00 AM", "9:15 - 11:45"}

\* cells quoted in the documentation of the pipeline
QuotedRows ==
    {<<(<<>>), (<<>>)>>,
     <<(<<"TBA">>), (<<>>)>>,
     <<(<<"F">>), (<<"7:30-10:00 AM">>)>>,
     <<(<<"MWF">>), (<<"8:00 AM - 9:00 AM">>)>>,
     <<(<<"MU">>), (<<"8:00 AM - 9:00 AM">>)>>,
     <<(<<"M", "W">>), (<<"8:00 AM - 9:00 AM", "2:00 PM - 3:00 PM">>)>>,
     <<(<<"MW", "TTH">>), (<<"8:00 AM - 9:00 AM", "2:00 PM - 3:00 PM">>)>>,
     <<(<<"TH", "Th">>), (<<"8:00 AM - 9:00 AM", "2:00 PM - 3:00 PM">>)>>,
     <<(<<>>), (<<"1-2-3">>)>>,
     <<(<<>>), (<<"9:00 AM 10:00 AM 11:00 AM">>)>>}

Lines(set, n) == [1..n -> set]
Rows ==
    \* one line: every day-code token with every way of writing the range
    {<<(<<d>>), (<<r>>)>> : d \in DayTokens, r \in RangeTexts}
    \* several lines, as many days as ranges
    \cup UNION {Lines(LineDays, n) \X Lines(LineRanges, n) : n \in 2..MaxLines}
    \* a column one line shorter than the other
    \cup (Lines(LineDays, 2) \X Lines(LineRanges, 1))
    \cup (Lines(LineDays, 1) \X Lines(LineRanges, 2))
    \cup QuotedRows

UploadIdle ==
    /\ rpc = [r \in 1..NumRequests |-> "idle"]
    /\ request = [r \in 1..NumRequests |-> [has_file |-> FALSE, filename |-> ""]]
    /\ file_path = [r \in 1..NumRequests |-> ""]
    /\ files = <<>>
    /\ outcome = [r \in 1..NumRequests |-> "none"]
    /\ status = [r \in 1..NumRequests |-> 0]
    /\ wrote = {}

Init ==
    /\ pc = "row"
    /\ \E row \in Rows : schedule_parts_1 = row[1] /\ schedule_parts_2 = row[2]
    /\ full_schedule = ""
    /\ schedule_parts = <<>>
    /\ day_codes = ""
    /\ times = ""
    /\ i = 0
    /\ individual_days = <<>>
    /\ days_times = <<>>
    /\ days = ""
    /\ UploadIdle

(***************************************************************************)
(* extract_and_transform_table, lines 288-304, and parse_schedule          *)
(***************************************************************************)
Max(a, b) == IF a > b THEN a ELSE b
\* parts += [""] * (max_len - len(parts))
Pad(parts, n) == [k \in 1..n |-> IF k <= Len(parts) THEN parts[k] ELSE ""]

\* the row's lines paired, each pair stripped, joined by spaces, stripped
BuildFullSchedule ==
    /\ pc = "row"
    /\ LET max_len == Max(Len(schedule_parts_1), Len(schedule_parts_2))
           p1 == Pad(schedule_parts_1, max_len)
           p2 == Pad(schedule_parts_2, max_len)
           combined_schedule_parts ==
               [k \in 1..max_len |-> Str(Strip(Chars(p1[k] \o " " \o p2[k])))]
       IN  /\ schedule_parts_1' = p1
           /\ schedule_parts_2' = p2
           /\ full_schedule' = Str(Strip(Chars(JoinSpace(combined_schedule_parts))))
    /\ pc' = "built"
    /\ UNCHANGED <<schedule_parts, day_codes, times, i, individual_days, days_times, days>>
    /\ UNCHANGED uploadVars

\* schedule = ... if full_schedule else []
SkipParse ==
    /\ pc = "built"
    /\ full_schedule = ""
    /\ days_times' = <<>>
    /\ pc' = "parsed"
    /\ UNCHANGED <<schedule_parts_1, schedule_parts_2, full_schedule, schedule_parts,
                   day_codes, times, i, individual_days, days>>
    /\ UNCHANGED uploadVars

\* schedule_parts = split_two_schedules(schedule_text)
SplitTwo ==
    /\ pc = "built"
    /\ full_schedule # ""
    /\ schedule_parts' = split_two_schedules(full_schedule)
    /\ days_times' = <<>>
    /\ pc' = "split"
    /\ UNCHANGED <<schedule_parts_1, schedule_parts_2, full_schedule,
                   day_codes, times, i, individual_days, days>>
    /\ UNCHANGED uploadVars

\* schedule_parts[index] = preprocess_schedule_text(part)
PreprocessParts ==
    /\ pc = "split"
    /\ schedule_parts' = [k \in 1..Len(schedule_parts) |->
                             preprocess_schedule_text(schedule_parts[k])]
    /\ pc' = "preprocessed"
    /\ UNCHANGED <<schedule_parts_1, schedule_parts_2, full_schedule,
                   day_codes, times, i, individual_days, days_times, days>>
    /\ UNCHANGED uploadVars

\* len(schedule_parts) != 1: split_same_time_diff_day is not called
KeepParts ==
    /\ pc = "preprocessed"
    /\ Len(schedule_parts) # 1
    /\ pc' = "expanded"
    /\ UNCHANGED <<schedule_parts_1, schedule_parts_2, full_schedule, schedule_parts,
                   day_codes, times, i, individual_days, days_times, days>>
    /\ UNCHANGED uploadVars

\* split_same_time_diff_day up to the loop: no match returns the text alone,
\* a match sets days (upper-cased), times and the loop's index
BeginSameTime ==
    /\ pc = "preprocessed"
    /\ Len(schedule_parts) = 1
    /\ LET text == same_time_text(Chars(schedule_parts[1]))
           m == ReMatch(PatSameTime, text)
       IN  IF m = <<>>
           THEN /\ schedule_parts' = <<Str(Strip(text))>>
                /\ pc' = "expanded"
                /\ UNCHANGED <<day_codes, times, i, individual_days>>
           ELSE /\ day_codes' = Str(UpperSeq(Group(PatSameTime, m, text, 1)))
                /\ times' = Str(Group(PatSameTime, m, text, 2))
                /\ i' = 0
                /\ individual_days' = <<>>
                /\ pc' = "scan"
                /\ UNCHANGED schedule_parts
    /\ UNCHANGED <<schedule_parts_1, schedule_parts_2, full_schedule, days_times, days>>
    /\ UNCHANGED uploadVars

\* one turn of: while i < len(days)
ScanStep ==
    /\ pc = "scan"
    /\ i < Len(day_codes)
    /\ individual_days' = Append(individual_days, ScanDay(Chars(day_codes), i))
    /\ i' = ScanNext(Chars(day_codes), i)
    /\ UNCHANGED <<pc, schedule_parts_1, schedule_parts_2, full_schedule, schedule_parts,
                   day_codes, times, days_times, days>>
    /\ UNCHANGED uploadVars

\* return [f"{day} {times}" for day in individual_days]
EndSameTime ==
    /\ pc = "scan"
    /\ i >= Len(day_codes)
    /\ schedule_parts' = [k \in 1..Len(individual_days) |->
                             individual_days[k] \o " " \o times]
    /\ pc' = "expanded"
    /\ UNCHANGED <<schedule_parts_1, schedule_parts_2, full_schedule,
                   day_codes, times, i, individual_days, days_times, days>>
    /\ UNCHANGED uploadVars

\* the loop over the parts: findall, one dictionary appended per match
MatchParts ==
    /\ pc = "expanded"
    /\ days_times' = EntriesOfParts(schedule_parts)
    /\ pc' = "parsed"
    /\ UNCHANGED <<schedule_parts_1, schedule_parts_2, full_schedule, schedule_parts,
                   day_codes, times, i, individual_days, days>>
    /\ UNCHANGED uploadVars

\* days = " ".join(sorted(set(item['day'] for item in schedule)))
SummariseDays ==
    /\ pc = "parsed"
    /\ days' = DaysOf(days_times)
    /\ pc' = "done"
    /\ UNCHANGED <<schedule_parts_1, schedule_parts_2, full_schedule, schedule_parts,
                   day_codes, times, i, individual_days, days_times>>
    /\ UNCHANGED uploadVars

Next ==
    \/ BuildFullSchedule
    \/ SkipParse
    \/ SplitTwo
    \/ PreprocessParts
    \/ KeepParts
    \/ BeginSameTime
    \/ ScanStep
    \/ EndSameTime
    \/ MatchParts
    \/ SummariseDays

Spec == Init /\ [][Next]_vars

(***************************************************************************)
(* upload_pdf.  Each request runs the handler; the requests of a threaded  *)
(* server interleave at the file operations.  files maps a path to the     *)
(* request whose save wrote the file now there, 0 when no file is there.   *)
(***************************************************************************)
LowerOf(c) ==
    IF c \in Upper
    THEN LET lo == Chars("abcdefghijklmnopqrstuvwxyz")
             up == Chars("ABCDEFGHIJKLMNOPQRSTUVWXYZ")
         IN  lo[CHOOSE k \in 1..26 : up[k] = c]
    ELSE c

ALLOWED_EXTENSIONS == {"pdf"}
\* '.' in filename and filename.rsplit('.', 1)[1].lower() in ALLOWED_EXTENSIONS
allowed_file(filename) ==
    LET cs == Chars(filename)
        dots == {k \in 1..Len(cs) : cs[k] = "."}
    IN  /\ dots # {}
        /\ LET last == CHOOSE k \in dots : \A j \in dots : j <= k
               ext == SubSeq(cs, last + 1, Len(cs))
           IN  Str([k \in 1..Len(ext) |-> LowerOf(ext[k])]) \in ALLOWED_EXTENSIONS

\* werkzeug's secure_filename: the words joined by "_", every character
\* outside [A-Za-z0-9_.-] dropped, dots and underscores stripped at the ends
SecureChars(cs) ==
    LET t == Strip(cs)
        u == [k \in 1..Len(t) |->
                 IF t[k] \in Whitespace
                 THEN (IF t[k - 1] \in Whitespace THEN "" ELSE "_")
                 ELSE IF t[k] \in Letter \cup Digit \cup {"_", ".", "-"} THEN t[k]
                 ELSE ""]
        Kept(c) == c # ""
    IN  SelectSeq(u, Kept)
secure_filename(filename) == Str(StripSet(SecureChars(Chars(filename)), {".", "_"}))

UPLOAD_FOLDER == "uploads"
\* os.path.join(app.config['UPLOAD_FOLDER'], secure_filename(file.filename))
upload_path(filename) == UPLOAD_FOLDER \o "/" \o secure_filename(filename)

\* the file names a request may carry
Filenames == {"", "a.pdf", ",a.pdf", "b.PDF", "n.txt", "pdf"}
Paths == {upload_path(f) : f \in Filenames}
Requests == 1..NumRequests

\* the three checks that answer 400
Rejected(req) ==
    \/ ~req.has_file
    \/ req.filename = ""
    \/ ~allowed_file(req.filename)

\* file.save(file_path), os.path.exists(file_path), os.remove(file_path)
SaveFile(fs, path, r) == [fs EXCEPT ![path] = r]
Exists(fs, path) == fs[path] # 0
\* a variant of the removal that leaves the file in place
RemoveFile_Keep(fs, path) == fs
RemoveFile(fs, path) == [fs EXCEPT ![path] = 0]

\* return jsonify(result), 200  /  return jsonify({"error": str(e)}), 500;
\* an exception leaving the finally block is answered 500 by the server
StatusOf(out) == IF out = "returned" THEN 200 ELSE 500

UploadInit ==
    /\ pc = "idle"
    /\ schedule_parts_1 = <<>>
    /\ schedule_parts_2 = <<>>
    /\ full_schedule = ""
    /\ schedule_parts = <<>>
    /\ day_codes = ""
    /\ times = ""
    /\ i = 0
    /\ individual_days = <<>>
    /\ days_times = <<>>
    /\ days = ""
    /\ rpc = [r \in Requests |-> "idle"]
    /\ request = [r \in Requests |-> [has_file |-> FALSE, filename |-> ""]]
    /\ file_path = [r \in Requests |-> ""]
    /\ files = [p \in Paths |-> 0]
    /\ outcome = [r \in Requests |-> "none"]
    /\ status = [r \in Requests |-> 0]
    /\ wrote = {}

\* a POST /upload arrives and the handler runs up to its first effect: the
\* three checks, then filename = secure_filename(...) and file_path
Receive(r) ==
    /\ rpc[r] = "idle"
    /\ \E has \in BOOLEAN, name \in Filenames :
           LET req == [has_file |-> has, filename |-> name]
           IN  /\ request' = [request EXCEPT ![r] = req]
               /\ IF Rejected(req)
                  THEN /\ rpc' = [rpc EXCEPT ![r] = "reject"]
                       /\ UNCHANGED file_path
                  ELSE /\ rpc' = [rpc EXCEPT ![r] = "save"]
                       /\ file_path' = [file_path EXCEPT ![r] = upload_path(name)]
    /\ UNCHANGED <<files, outcome, status, wrote>>
    /\ UNCHANGED rowVars

\* the early returns: return jsonify({"error": ...}), 400
Reject(r) ==
    /\ rpc[r] = "reject"
    /\ status' = [status EXCEPT ![r] = 400]
    /\ rpc' = [rpc EXCEPT ![r] = "done"]
    /\ UNCHANGED <<request, file_path, files, outcome, wrote>>
    /\ UNCHANGED rowVars

\* file.save(file_path)
Save(r) ==
    /\ rpc[r] = "save"
    /\ files' = SaveFile(files, file_path[r], r)
    /\ wrote' = wrote \cup {r}
    /\ rpc' = [rpc EXCEPT ![r] = "extract"]
    /\ UNCHANGED <<request, file_path, outcome, status>>
    /\ UNCHANGED rowVars

\* extract_and_transform_table(file_path) returns or raises; it cannot
\* return when the file is not there
Extract(r) ==
    /\ rpc[r] = "extract"
    /\ \E out \in {"returned", "raised"} :
           /\ out = "returned" => Exists(files, file_path[r])
           /\ outcome' = [outcome EXCEPT ![r] = out]
    /\ rpc' = [rpc EXCEPT ![r] = "finally"]
    /\ UNCHANGED <<request, file_path, files, status, wrote>>
    /\ UNCHANGED rowVars

\* finally: if os.path.exists(file_path)
CheckExists(r) ==
    /\ rpc[r] = "finally"
    /\ rpc' = [rpc EXCEPT ![r] =
                  IF Exists(files, file_path[r]) THEN "remove" ELSE "respond"]
    /\ UNCHANGED <<request, file_path, files, outcome, status, wrote>>
    /\ UNCHANGED rowVars

\* os.remove(file_path); it raises when another request removed the file
\* after the check
Remove(r) ==
    /\ rpc[r] = "remove"
    /\ IF Exists(files, file_path[r])
       THEN /\ files' = RemoveFile(files, file_path[r])
            /\ UNCHANGED outcome
       ELSE /\ outcome' = [outcome EXCEPT ![r] = "cleanup_raised"]
            /\ UNCHANGED files
    /\ rpc' = [rpc EXCEPT ![r] = "respond"]
    /\ UNCHANGED <<request, file_path, status, wrote>>
    /\ UNCHANGED rowVars

Respond(r) ==
    /\ rpc[r] = "respond"
    /\ status' = [status EXCEPT ![r] = StatusOf(outcome[r])]
    /\ rpc' = [rpc EXCEPT ![r] = "done"]
    /\ UNCHANGED <<request, file_path, files, outcome, wrote>>
    /\ UNCHANGED rowVars

\* the steps of the handler once a request has arrived
Handle(r) ==
    \/ Reject(r)
    \/ Save(r)
    \/ Extract(r)
    \/ CheckExists(r)
    \/ Remove(r)
    \/ Respond(r)

UploadNext == \E r \in Requests : Receive(r) \/ Handle(r)

UploadSpec == UploadInit /\ [][UploadNext]_vars
\* the server runs every handler it started to its response
UploadFairSpec == UploadSpec /\ \A r \in Requests : WF_vars(Handle(r))

(***************************************************************************)
(* Properties.  Definitions used to state them, written without the        *)
(* operators above wherever the property is about those operators.         *)
(***************************************************************************)
Elems(seq) == {seq[k] : k \in 1..Len(seq)}
UpperChars(str) == UpperSeq(Chars(str))
AllLetters(str) == str # "" /\ \A c \in Elems(Chars(str)) : c \in Letter

\* The day units of an upper-case day code read without a scan: every
\* position is a unit except an H that stands right after a T, and a T that
\* stands right before an H is Thursday.
DayUnits(d) ==
    LET kept == {q \in 1..Len(d) : ~(d[q] = "H" /\ q > 1 /\ d[q - 1] = "T")}
        nth(k) == CHOOSE q \in kept : Cardinality({x \in kept : x < q}) = k - 1
        unit(q) == IF d[q] = "T" /\ q < Len(d) /\ d[q + 1] = "H"
                   THEN "Th" ELSE day_mapping(d[q])
    IN  [k \in 1..Cardinality(kept) |-> unit(nth(k))]

\* the entry a range form gives for one day, each side as written
EntryAsWritten(day, r) ==
    [day |-> day, time_start |-> r.start, time_start_daytime |-> r.sm,
     time_end |-> r.end, time_end_daytime |-> r.em]
\* the entry a range form gives when a missing marker is taken from the other side
EntryInherited(day, r) ==
    [day |-> day, time_start |-> r.start,
     time_start_daytime |-> IF r.sm = "" THEN r.em ELSE r.sm,
     time_end |-> r.end,
     time_end_daytime |-> IF r.em = "" THEN r.sm ELSE r.em]
\* the range forms written in the row's second column
FormsOfRow == {r \in RangeForms : r.text \in Elems(schedule_parts_2)}

\* C1 (as amended): parse_schedule does no meridiem inheritance. At the end
\* every entry carries the start time, start marker, end time and end marker
\* exactly as one line of the row wrote them: a side without a marker is
\* reported as the empty string also when the other side has one, both are
\* empty when neither has one, and no marker comes from another match.
C1_MarkersAsWritten ==
    pc = "done" =>
        \A k \in 1..Len(days_times) :
            \E r \in FormsOfRow : days_times[k] = EntryAsWritten(days_times[k].day, r)

\* C1 (as claimed): an entry of a range with exactly one marker reports that
\* marker on both sides.
C1_MarkerInherited ==
    pc = "done" =>
        \A k \in 1..Len(days_times) :
            \E r \in FormsOfRow : days_times[k] = EntryInherited(days_times[k].day, r)

C1_Witness ==
    /\ pc = "done"
    /\ full_schedule = "F 7:30-10:00 AM"
    /\ days_times = <<[day |-> "F", time_start |-> "7:30", time_start_daytime |-> "",
                       time_end |-> "10:00", time_end_daytime |-> "AM"]>>

\* C2 (as claimed): preprocess_schedule_text is idempotent: preprocessing a
\* text it returned gives the same text again.
C2_PreprocessIdempotent ==
    pc = "preprocessed" =>
        \A k \in 1..Len(schedule_parts) :
            preprocess_schedule_text(schedule_parts[k]) = schedule_parts[k]

\* the positions of an M that whitespace and then a capital letter follow
Boundaries(s) ==
    {b \in 1..Len(s) : /\ s[b] = "M"
                       /\ \E q \in (b + 2)..Len(s) :
                              /\ s[q] \in Upper
                              /\ \A j \in (b + 1)..(q - 1) : s[j] \in Whitespace}
\* the two pieces of a cut at boundary b: up to the M, and from the capital on
CutAt(s, b) ==
    LET q == CHOOSE x \in (b + 2)..Len(s) :
                 /\ s[x] \in Upper
                 /\ \A j \in (b + 1)..(x - 1) : s[j] \in Whitespace
    IN  <<Str(SubSeq(s, 1, b)), Str(SubSeq(s, q, Len(s)))>>
MaxOf(set) == CHOOSE x \in set : \A y \in set : y <= x
MinOf(set) == CHOOSE x \in set : \A y \in set : x <= y
TwoScheduleExample ==
    pc = "done" /\ full_schedule = "M 8:00 AM - 9:00 AM W 2:00 PM - 3:00 PM" =>
        days_times = <<[day |-> "M", time_start |-> "8:00", time_start_daytime |-> "AM",
                        time_end |-> "9:00", time_end_daytime |-> "AM"],
                       [day |-> "W", time_start |-> "2:00", time_start_daytime |-> "PM",
                        time_end |-> "3:00", time_end_daytime |-> "PM"]>>

\* C3 (as amended): split_two_schedules returns the whole text as one piece
\* when it has no boundary (an M, whitespace, a capital letter); otherwise
\* exactly two pieces, the first ending at the LAST boundary of the text and
\* the second starting at the capital letter after it. The text with one
\* boundary "M 8:00 AM - 9:00 AM W 2:00 PM - 3:00 PM" parses into one entry
\* per piece.
C3_SplitAtLastBoundary ==
    /\ pc = "split" =>
           LET s == Chars(full_schedule)
           IN  IF Boundaries(s) = {} THEN schedule_parts = <<full_schedule>>
               ELSE schedule_parts = CutAt(s, MaxOf(Boundaries(s)))
    /\ TwoScheduleExample

\* C3 (as claimed): the first piece ends at the FIRST boundary of the text.
C3_SplitAtFirstBoundary ==
    /\ pc = "split" =>
           LET s == Chars(full_schedule)
           IN  IF Boundaries(s) = {} THEN schedule_parts = <<full_schedule>>
               ELSE schedule_parts = CutAt(s, MinOf(Boundaries(s)))
    /\ TwoScheduleExample

C3_Witness ==
    /\ pc = "split"
    /\ Cardinality(Boundaries(Chars(full_schedule))) >= 2
    /\ Len(schedule_parts) = 2

\* the ranges with both markers and a dash between spaces
SpacedBoth == {r \in RangeForms : r.dash = "spaced" /\ r.sm # "" /\ r.em # ""}

C5_DigraphPrecedence ==
    pc = "scan" =>
        /\ individual_days = DayUnits(SubSeq(Chars(day_codes), 1, i))
        /\ (i >= Len(day_codes) /\ Len(schedule_parts_1) = 1) =>
               individual_days = DayUnits(UpperChars(schedule_parts_1[1]))

C5_Witness ==
    /\ pc = "scan"
    /\ schedule_parts_1 = <<"Tth">>
    /\ i = 3
    /\ individual_days = <<"T", "Th">>

\* C6 (as claimed): the days summary lists canonical day codes (M, T, W, Th,
\* F, S, Su), each at most once, sorted and joined by single spaces.
CanonicalCodes == {"M", "T", "W", "Th", "F", "S", "Su"}
C6_DaysCanonical ==
    pc = "done" => \E D \in SUBSET CanonicalCodes : days = JoinSpace(Sorted(D))

\* a time token, \d:\d\d, somewhere in the text
HasTime(str) ==
    LET s == Chars(str)
    IN  \E q \in 1..(Len(s) - 3) :
            s[q] \in Digit /\ s[q + 1] = ":" /\ s[q + 2] \in Digit /\ s[q + 3] \in Digit

\* the guards of the steps of a row, written out: some step can be taken
CanStep ==
    \/ pc = "row"
    \/ pc = "built" /\ (full_schedule = "" \/ full_schedule # "")
    \/ pc = "split"
    \/ pc = "preprocessed" /\ (Len(schedule_parts) = 1 \/ Len(schedule_parts) # 1)
    \/ pc = "scan" /\ i < Len(day_codes) /\ ScanNext(Chars(day_codes), i) <= Len(day_codes)
    \/ pc = "scan" /\ i >= Len(day_codes)
    \/ pc = "expanded"
    \/ pc = "parsed"

\* C7: the processing of a row never stops before its result (every state
\* but the result has a step to take, and the scan never reads past the day
\* code); a cell without any time token (the empty cell, "TBA") gives no
\* entries, and a result without entries has the empty days summary.
C7_TotalEmptyOnNoMatch ==
    /\ pc # "done" => CanStep
    /\ pc = "done" =>
           /\ ~HasTime(full_schedule) => days_times = <<>>
           /\ days_times = <<>> => days = ""

C7_Witness ==
    /\ pc = "done"
    /\ full_schedule = "TBA"
    /\ days_times = <<>>
    /\ days = ""

\* C8 (as claimed): every entry has a single day as its day, never a
\* composite code, also when the two-schedule split found a boundary.
C8_SingleDayEntries ==
    pc = "done" =>
        \A k \in 1..Len(days_times) : Len(DayUnits(UpperChars(days_times[k].day))) = 1

\* " - " somewhere in the text
HasSpacedDash(str) ==
    LET s == Chars(str)
    IN  \E q \in 1..(Len(s) - 2) : s[q] = " " /\ s[q + 1] = "-" /\ s[q + 2] = " "

\* C9 (as claimed): a one-line cell whose two times both carry a marker and
\* are separated by whitespace alone or by a dash without spaces leaves
\* preprocess_schedule_text with a dash between spaces and parse_schedule with
\* an entry.
C9_DashRecovered ==
    \A r \in {x \in RangeForms : x.dash \in {"elided", "unspaced"}} :
        (/\ Len(schedule_parts_1) = 1
         /\ Len(schedule_parts_2) = 1
         /\ AllLetters(schedule_parts_1[1])
         /\ schedule_parts_2[1] = r.text)
        => /\ pc = "preprocessed" => HasSpacedDash(schedule_parts[1])
           /\ pc = "done" => days_times # <<>>

\* C10: a request answered 400 never wrote a file; the file a request saved
\* is no longer at its path once the request is answered, whether the
\* extraction returned or raised; and every save is eventually followed by
\* the file's removal.
SavedFileThere(r) == r \in wrote /\ files[file_path[r]] = r
C10_UploadCleanup ==
    /\ [](\A r \in Requests :
              /\ status[r] = 400 => r \notin wrote
              /\ (rpc[r] = "done" /\ r \in wrote) =>
                     /\ ~SavedFileThere(r)
                     /\ status[r] \in {200, 500})
    /\ \A r \in Requests : SavedFileThere(r) ~> ~SavedFileThere(r)

C10_Witness ==
    \E r \in Requests :
        /\ rpc[r] = "done"
        /\ r \in wrote
        /\ status[r] = 200
        /\ outcome[r] = "returned"
        /\ files[file_path[r]] = 0

====
